---- MODULE Spec2Model ----
(***************************************************************************)
(* The research pipeline of deep_research_agent.py: the LangGraph workflow *)
(* search -> query_kb -> scrape -> synthesis -> END over a ResearchState,  *)
(* with the collaborators it calls (search_web, the knowledge base,        *)
(* scrape_url, the Groq LLM).                                              *)
(*                                                                         *)
(* A ResearchState is a record whose fields are options: <<>> when the key *)
(* is missing from the dict, <<v>> when the key holds v.  A collaborator's *)
(* answer is drawn when the call is made and appended to that              *)
(* collaborator's log, so a log tells which calls a run has made.          *)
(***************************************************************************)
EXTENDS Integers, Sequences, FiniteSets

\* The research run.
VARIABLES pc, state, ran, trace, searchLog, kbLog, fetchLog, llmLog
\* One call of split_text_into_chunks.
VARIABLES sp_pc, sp_text, sp_size, sp_overlap, sp_start, sp_chunks, sp_iter,
          sp_windows

\* The knowledge store and the sessions of the app that use it.
VARIABLES client, dir_exists, gen, db, cache, issued, sess, runs, hist, overlapped, torn

runVars == <<pc, state, ran, trace, searchLog, kbLog, fetchLog, llmLog>>
splitVars == <<sp_pc, sp_text, sp_size, sp_overlap, sp_start, sp_chunks, sp_iter,
              sp_windows>>

\* One call of search_similar_documents.
VARIABLES q_pc, q_dists, q_k, q_result

queryVars == <<q_pc, q_dists, q_k, q_result>>
storeVars == <<client, dir_exists, gen, db, cache, issued, sess, runs, hist, overlapped, torn>>

vars == <<runVars, splitVars, storeVars, queryVars>>

\* ---------------------------------------------------------------- bounds
\* Longest "organic" list the search API answers with.
MaxOrganic == 2
\* Largest number of documents the knowledge base holds.
MaxDocs == 2

\* ------------------------------------------------------- python helpers
Min(a, b) == IF a <= b THEN a ELSE b

\* s[:n]
Take(s, n) == SubSeq(s, 1, Min(n, Len(s)))

\* All sequences over S of length at most n.
SeqsUpTo(S, n) == UNION {[1..k -> S] : k \in 0..n}

Absent == <<>>
Some(v) == <<v>>

\* d.get(key, default) on an option-valued field.
Get(field, default) == IF field = Absent THEN default ELSE field[1]

\* ---------------------------------------------------------- ResearchState
\* The dict the caller passes to invoke: {"query": query}, or no query key.
Queries == {"", "ai news"}

InputState(q) ==
    [query |-> q,
     search_results |-> Absent,
     scraped_content |-> Absent,
     knowledge_base_results |-> Absent,
     final_synthesis |-> Absent,
     error |-> Absent]

\* state.get("error") is truthy: every message the nodes write is non-empty.
HasError(st) == st.error # Absent

\* ------------------------------------------------------------ search_web
\* The links the search API can answer with; "" is an item without a link.
HttpUrls == {"http://a.org", "https://b.org", "https://cc.org"}
Urls == HttpUrls \cup {"ftp://d.org", ""}

\* One more link, for the answers that hold more http links than are fetched.
MoreHttpUrls == HttpUrls \cup {"http://e.org"}

\* url.startswith(('http://', 'https://'))
StartsWithHttp(url) == url \in MoreHttpUrls

\* len(url)
UrlLen(url) ==
    CASE url = "http://a.org" -> 12
      [] url = "https://b.org" -> 13
      [] url = "https://cc.org" -> 14
      [] url = "ftp://d.org" -> 11
      [] url = "http://e.org" -> 12
      [] OTHER -> 0

\* What happens to the request of search_web: no API key, one of the
\* requests exceptions, or a JSON answer with its "organic" list.
SerperFailures == {"no_api_key", "timeout", "http_error", "request_error"}

SerperResponses ==
    {[kind |-> k, organic |-> <<>>] : k \in SerperFailures}
    \cup {[kind |-> "ok", organic |-> o] : o \in SeqsUpTo(Urls, MaxOrganic)}

\* search_web: every failure is caught inside and answered with [], so the
\* call never raises; otherwise one result per organic item, at most
\* num_results of them.
search_web(query, n, resp) ==
    IF resp.kind # "ok"
    THEN [raised |-> FALSE, value |-> <<>>]
    ELSE [raised |-> FALSE,
          value |-> [i \in 1..Min(n, Len(resp.organic)) |->
                        [link |-> resp.organic[i], position |-> i]]]

\* The num_results search_node asks search_web for.
num_results == 5

\* search_node with the call of search_web moved before the test of the query.
search_node_result_call_first(st, resp) ==
    IF HasError(st)
    THEN [new_state |-> st, called |-> FALSE]
    ELSE LET r == search_web(Get(st.query, ""), num_results, resp) IN
         IF Get(st.query, "") = ""
         THEN [new_state |-> [st EXCEPT !.error = Some("No query provided for search")],
               called |-> TRUE]
         ELSE [new_state |-> [st EXCEPT !.search_results = Some(r.value)],
               called |-> TRUE]

\* search_node storing the query it searched for, stripped.
search_node_result_rewrites_query(st, resp) ==
    IF HasError(st)
    THEN [new_state |-> st, called |-> FALSE]
    ELSE IF Get(st.query, "") = ""
    THEN [new_state |-> [st EXCEPT !.error = Some("No query provided for search")],
          called |-> FALSE]
    ELSE LET r == search_web(Get(st.query, ""), num_results, resp) IN
         [new_state |-> [st EXCEPT !.search_results = Some(r.value),
                                   !.query = Some("ai")],
          called |-> TRUE]

\* search_node as a function of the state and of the API's answer: the new
\* state, and whether search_web was called.
search_node_result(st, resp) ==
    IF HasError(st)
    THEN [new_state |-> st, called |-> FALSE]
    ELSE IF Get(st.query, "") = ""
    THEN [new_state |-> [st EXCEPT !.error = Some("No query provided for search")],
          called |-> FALSE]
    ELSE LET r == search_web(Get(st.query, ""), num_results, resp) IN
         IF r.raised
         THEN [new_state |-> [st EXCEPT !.error = Some("Web search failed"),
                                        !.search_results = Some(<<>>)],
               called |-> TRUE]
         ELSE [new_state |-> [st EXCEPT !.search_results = Some(r.value)],
               called |-> TRUE]

\* ------------------------------------------------------------- workflow
\* The workflow with the edge query_kb -> scrape replaced by query_kb -> synthesis.
Edge_without_scrape(node) ==
    CASE node = "START" -> "search"
      [] node = "search" -> "query_kb"
      [] node = "query_kb" -> "synthesis"
      [] node = "scrape" -> "synthesis"
      [] OTHER -> "END"

\* The edges of create_research_workflow.
Edge(node) ==
    CASE node = "START" -> "search"
      [] node = "search" -> "query_kb"
      [] node = "query_kb" -> "scrape"
      [] node = "scrape" -> "synthesis"
      [] node = "synthesis" -> "END"
      [] OTHER -> "END"

\* A node has run: the graph stores its state and follows the node's edge.
Step(node, new_state) ==
    /\ state' = new_state
    /\ ran' = Append(ran, node)
    /\ trace' = Append(trace, new_state)
    /\ pc' = Edge(node)

search_node ==
    /\ pc = "search"
    /\ \E resp \in SerperResponses :
        LET r == search_node_result(state, resp) IN
        /\ Step("search", r.new_state)
        /\ searchLog' = IF r.called THEN Append(searchLog, resp) ELSE searchLog
    /\ UNCHANGED <<kbLog, fetchLog, llmLog>>
    /\ UNCHANGED <<splitVars, storeVars, queryVars>>

\* -------------------------------------------------------- knowledge base
\* What the store does when the node turns to it: the collection cannot be
\* opened, count() or query() raises, or the collection holds count
\* documents.  The documents are named 1..count in the order of their
\* distance to the query.
StoreResponses ==
    {[kind |-> k, count |-> 0] : k \in {"unavailable", "query_error"}}
    \cup {[kind |-> "ok", count |-> n] : n \in 0..MaxDocs}

\* get_knowledge_base: the collection, or None when opening it raises.
get_knowledge_base(store) == store.kind # "unavailable"

\* query_knowledge_base: [] for an empty collection and for any exception,
\* otherwise the n_results nearest documents.
query_knowledge_base(query, store, n) ==
    IF store.kind # "ok" \/ store.count = 0
    THEN <<>>
    ELSE [i \in 1..Min(n, store.count) |-> i]

\* The n_results knowledge_base_node asks the store for.
n_results == 3

\* knowledge_base_node without the test of a previous error.
knowledge_base_node_result_no_skip(st, store) ==
    IF ~get_knowledge_base(store)
    THEN [new_state |-> [st EXCEPT !.knowledge_base_results = Some(<<>>)],
          called |-> TRUE]
    ELSE [new_state |->
            [st EXCEPT !.knowledge_base_results =
                Some(query_knowledge_base(Get(st.query, ""), store, n_results))],
          called |-> TRUE]

\* knowledge_base_node reporting a store it cannot use as the run's error.
knowledge_base_node_result_sets_error(st, store) ==
    IF HasError(st)
    THEN [new_state |-> st, called |-> FALSE]
    ELSE IF store.kind # "ok"
    THEN [new_state |-> [st EXCEPT !.knowledge_base_results = Some(<<>>),
                                   !.error = Some("Knowledge base query failed")],
          called |-> TRUE]
    ELSE [new_state |->
            [st EXCEPT !.knowledge_base_results =
                Some(query_knowledge_base(Get(st.query, ""), store, n_results))],
          called |-> TRUE]

\* knowledge_base_node as a function of the state and of what the store
\* does: the new state, and whether the store was turned to.
knowledge_base_node_result(st, store) ==
    IF HasError(st)
    THEN [new_state |-> st, called |-> FALSE]
    ELSE IF ~get_knowledge_base(store)
    THEN [new_state |-> [st EXCEPT !.knowledge_base_results = Some(<<>>)],
          called |-> TRUE]
    ELSE IF Get(st.query, "") = ""
    THEN [new_state |-> [st EXCEPT !.knowledge_base_results = Some(<<>>)],
          called |-> TRUE]
    ELSE [new_state |->
            [st EXCEPT !.knowledge_base_results =
                Some(query_knowledge_base(Get(st.query, ""), store, n_results))],
          called |-> TRUE]

knowledge_base_node ==
    /\ pc = "query_kb"
    /\ \E store \in StoreResponses :
        LET r == knowledge_base_node_result(state, store) IN
        /\ Step("query_kb", r.new_state)
        /\ kbLog' = IF r.called THEN Append(kbLog, store) ELSE kbLog
    /\ UNCHANGED <<searchLog, fetchLog, llmLog>>
    /\ UNCHANGED <<splitVars, storeVars, queryVars>>

\* ---------------------------------------------------------------- scrape
\* scrape_url's max_chars, and the length of the notice it answers with for
\* a PDF, "[Content is a PDF and was not parsed] URL: " before the url.
max_chars == 5000
PdfNoticeLen == 43
\* scrape_node: pages fetched per run, the least content kept, the most
\* content stored.
MaxPages == 3
MinContentLen == 50
MaxContentLen == 2000

\* What a fetch meets: an exception of the HTTP client (status error,
\* request error, timeout), a PDF, or an HTML page whose cleaned text has
\* len characters.  A text is modelled by its length.
PageLens == {50, 2001}

PageResponses ==
    {[kind |-> k, len |-> 0] : k \in {"http_error", "pdf"}}
    \cup {[kind |-> "html", len |-> n] : n \in PageLens}

\* scrape_url: "" for a url without http scheme and for every exception,
\* the notice for a PDF, otherwise clean_text[:max_chars].
scrape_url(url, page) ==
    IF url = "" \/ ~StartsWithHttp(url) THEN 0
    ELSE IF page.kind = "http_error" THEN 0
    ELSE IF page.kind = "pdf" THEN PdfNoticeLen + UrlLen(url)
    ELSE Min(page.len, max_chars)

\* The links of the search results, without repetition, in first-seen
\* order, http and https only.
RECURSIVE UniqueUrls(_, _)
UniqueUrls(results, urls) ==
    IF results = <<>> THEN urls
    ELSE LET url == Head(results).link
             seen == {urls[i] : i \in 1..Len(urls)} IN
         UniqueUrls(Tail(results),
                    IF url # "" /\ url \notin seen /\ StartsWithHttp(url)
                    THEN Append(urls, url) ELSE urls)

ScrapeTargets_uncapped(st) ==
    IF HasError(st) \/ Get(st.search_results, <<>>) = <<>> THEN <<>>
    ELSE UniqueUrls(Get(st.search_results, <<>>), <<>>)

\* The urls scrape_node turns to for a state: none when it skips the stage.
ScrapeTargets(st) ==
    IF HasError(st) \/ Get(st.search_results, <<>>) = <<>> THEN <<>>
    ELSE Take(UniqueUrls(Get(st.search_results, <<>>), <<>>), MaxPages)

\* The loop leaving at the first fetch that gives too little.
RECURSIVE ScrapeLoop_stops(_, _, _, _)
ScrapeLoop_stops(targets, pages, i, acc) ==
    IF i > Len(targets) THEN acc
    ELSE LET content == scrape_url(targets[i], pages[i])
             fetched == Append(acc.fetched, [url |-> targets[i], page |-> pages[i]]) IN
         IF content > MinContentLen
         THEN ScrapeLoop_stops(targets, pages, i + 1,
                  [scraped_data |->
                      Append(acc.scraped_data,
                             [url |-> targets[i],
                              content |-> Min(content, MaxContentLen)]),
                   fetched |-> fetched])
         ELSE [scraped_data |-> acc.scraped_data, fetched |-> fetched]

\* The loop storing the content as long as it came.
RECURSIVE ScrapeLoop_uncut(_, _, _, _)
ScrapeLoop_uncut(targets, pages, i, acc) ==
    IF i > Len(targets) THEN acc
    ELSE LET content == scrape_url(targets[i], pages[i])
             fetched == Append(acc.fetched, [url |-> targets[i], page |-> pages[i]]) IN
         ScrapeLoop_uncut(targets, pages, i + 1,
                    IF content > MinContentLen
                    THEN [scraped_data |->
                             Append(acc.scraped_data,
                                    [url |-> targets[i], content |-> content]),
                          fetched |-> fetched]
                    ELSE [scraped_data |-> acc.scraped_data, fetched |-> fetched])

\* The loop over urls[:3]: pages[i] is what the fetch of targets[i] meets.
\* A url whose fetch gives too little is passed over and the loop goes on.
\* acc holds scraped_data and the fetches made so far.
RECURSIVE ScrapeLoop(_, _, _, _)
ScrapeLoop(targets, pages, i, acc) ==
    IF i > Len(targets) THEN acc
    ELSE LET content == scrape_url(targets[i], pages[i])
             fetched == Append(acc.fetched, [url |-> targets[i], page |-> pages[i]]) IN
         ScrapeLoop(targets, pages, i + 1,
                    IF content > MinContentLen
                    THEN [scraped_data |->
                             Append(acc.scraped_data,
                                    [url |-> targets[i],
                                     content |-> Min(content, MaxContentLen)]),
                          fetched |-> fetched]
                    ELSE [scraped_data |-> acc.scraped_data, fetched |-> fetched])

\* scrape_node as a function of the state and of what the fetches meet: the
\* new state, and the fetches made.
scrape_node_result(st, pages) ==
    IF HasError(st) THEN [new_state |-> st, fetched |-> <<>>]
    ELSE IF Get(st.search_results, <<>>) = <<>>
    THEN [new_state |-> [st EXCEPT !.scraped_content = Some(<<>>)],
          fetched |-> <<>>]
    ELSE LET r == ScrapeLoop(ScrapeTargets(st), pages, 1,
                             [scraped_data |-> <<>>, fetched |-> <<>>]) IN
         [new_state |-> [st EXCEPT !.scraped_content = Some(r.scraped_data)],
          fetched |-> r.fetched]

scrape_node ==
    /\ pc = "scrape"
    /\ \E pages \in [1..Len(ScrapeTargets(state)) -> PageResponses] :
        LET r == scrape_node_result(state, pages) IN
        /\ Step("scrape", r.new_state)
        /\ fetchLog' = fetchLog \o r.fetched
    /\ UNCHANGED <<searchLog, kbLog, llmLog>>
    /\ UNCHANGED <<splitVars, storeVars, queryVars>>

\* ------------------------------------------------------------- synthesis
\* A report: final_synthesis.  shape is the JSON type of the value; the
\* fields are the keys of an object, missing or present.
Report(shape, summary, findings, error) ==
    [shape |-> shape, summary |-> summary, findings |-> findings, error |-> error]

\* A summary is its wording with the values formatted into it.
Summary(text, query, web, scraped, kb) ==
    [text |-> text, query |-> query, web |-> web, scraped |-> scraped, kb |-> kb]

Finding(title, description, n, evidence) ==
    [title |-> title, description |-> description, n |-> n, evidence |-> evidence]

\* {"error": error_msg}
ErrorReport(error_msg) == Report("object", Absent, Absent, Some(error_msg))

\* The text of the model's answer, as a sequence of tokens: "ws" is a run
\* of whitespace, "fence" a code fence (three backquotes), "json" the word after a fence,
\* "text" any prose, and the other tokens are one JSON value each.
JsonValues == {"{report}", "{other}", "[list]", "7", "null"}

LLMContents ==
    {<<"ws", "{report}", "ws">>,
     <<"fence", "json", "ws", "{report}", "ws", "fence">>,
     <<"fence", "ws", "{other}", "ws", "fence", "ws">>,
     <<"[list]">>,
     <<"fence", "7", "fence">>,
     <<"null">>,
     <<"text", "ws", "fence", "json", "ws", "{report}", "ws", "fence">>}

\* What the model client does: get_llm answers None (no API key, or the
\* client or its test call raises), invoke raises, or invoke answers.
LLMResponses ==
    {[kind |-> k, content |-> <<>>] : k \in {"unavailable", "invoke_error"}}
    \cup {[kind |-> "ok", content |-> c] : c \in LLMContents}

get_llm_never_none(llm) == TRUE

\* get_llm
get_llm(llm) == llm.kind # "unavailable"

\* str.strip()
RECURSIVE LStrip(_)
LStrip(t) == IF t # <<>> /\ Head(t) = "ws" THEN LStrip(Tail(t)) ELSE t

RECURSIVE RStrip(_)
RStrip(t) ==
    IF t # <<>> /\ t[Len(t)] = "ws" THEN RStrip(SubSeq(t, 1, Len(t) - 1)) ELSE t

Strip(t) == RStrip(LStrip(t))

\* re.sub of the pattern fence, (?:json)?, \s* by "": every fence goes, with the word json
\* right after it and the whitespace after that.
RECURSIVE DropFences(_)
DropFences(t) ==
    IF t = <<>> THEN <<>>
    ELSE IF Head(t) = "fence"
    THEN LET a == Tail(t)
             b == IF a # <<>> /\ Head(a) = "json" THEN Tail(a) ELSE a IN
         DropFences(LStrip(b))
    ELSE <<Head(t)>> \o DropFences(Tail(t))

\* re.sub of the pattern \s*, fence, $ by ""
DropLastFence(t) ==
    IF t # <<>> /\ t[Len(t)] = "fence" THEN RStrip(SubSeq(t, 1, Len(t) - 1)) ELSE t

\* The cleaning of the answer before it is parsed.
CleanContent(content) ==
    LET cleaned_content == Strip(content) IN
    IF cleaned_content # <<>> /\ Head(cleaned_content) = "fence"
    THEN DropLastFence(DropFences(cleaned_content))
    ELSE cleaned_content

\* json.loads: one JSON value, whitespace around it allowed; anything else
\* is a JSONDecodeError.
json_loads(t) ==
    LET v == Strip(t) IN
    IF Len(v) = 1 /\ v[1] \in JsonValues
    THEN [ok |-> TRUE, value |-> v[1]]
    ELSE [ok |-> FALSE, value |-> "JSONDecodeError"]

\* The findings of the model's answer, when it has the keys asked for.
ModelFindings ==
    <<Finding("Key Finding Title", "model", 0, <<"Knowledge Base">>)>>

\* The Python value json.loads answers, stored as final_synthesis.
ParsedReport(value) ==
    CASE value = "{report}" ->
            Report("object", Some(Summary("model", "", 0, 0, 0)),
                   Some(ModelFindings), Absent)
      [] value = "{other}" -> Report("object", Absent, Absent, Absent)
      [] value = "[list]" -> Report("list", Absent, Absent, Absent)
      [] value = "7" -> Report("number", Absent, Absent, Absent)
      [] value = "null" -> Report("null", Absent, Absent, Absent)

Links(results) == [i \in 1..Len(results) |-> results[i].link]
PageUrls(pages) == [i \in 1..Len(pages) |-> pages[i].url]

\* The report built when the answer does not parse.
fallback_result(query, search_results, scraped_content, kb_results) ==
    Report("object",
        Some(Summary("Research analysis completed", query,
                     Len(search_results), Len(scraped_content), Len(kb_results))),
        Some((IF kb_results # <<>>
              THEN <<Finding("Knowledge Base Analysis",
                             "Relevant information found in the internal knowledge base.",
                             0, <<"Knowledge Base">>)>>
              ELSE <<>>)
             \o (IF search_results # <<>>
                 THEN <<Finding("Web Research Results",
                                "relevant web sources with current information",
                                Len(search_results),
                                Links(Take(search_results, 3)))>>
                 ELSE <<>>)
             \o (IF scraped_content # <<>>
                 THEN <<Finding("Detailed Content Analysis",
                                "extracted detailed content from web sources",
                                Len(scraped_content),
                                PageUrls(scraped_content))>>
                 ELSE <<>>)),
        Absent)

\* The report of the outer except clause.
ExceptionReport(error_msg) ==
    Report("object",
        Some(Summary("Research synthesis encountered an error", error_msg, 0, 0, 0)),
        Some(<<>>), Absent)

ParseFailureState_sets_error(st, report) ==
    [st EXCEPT !.error = Some("JSON parsing failed"),
               !.final_synthesis = Some(report)]

\* The state returned from the handler of the JSONDecodeError: the fallback
\* report is stored, nothing else is touched.
ParseFailureState(st, report) == [st EXCEPT !.final_synthesis = Some(report)]

\* synthesis_node as a function of the state and of what the model client
\* does: the new state, and whether get_llm was called.
synthesis_node_result(st, llm) ==
    LET search_results == Get(st.search_results, <<>>)
        scraped_content == Get(st.scraped_content, <<>>)
        kb_results == Get(st.knowledge_base_results, <<>>)
        Failed(error_msg, report, called) ==
            [new_state |-> [st EXCEPT !.error = Some(error_msg),
                                      !.final_synthesis = Some(report)],
             called |-> called]
    IN
    IF search_results = <<>> /\ scraped_content = <<>> /\ kb_results = <<>>
    THEN Failed("No data available for synthesis",
                ErrorReport("No data available for synthesis"), FALSE)
    ELSE IF ~get_llm(llm)
    THEN Failed("LLM not available for synthesis",
                ErrorReport("LLM not available for synthesis"), TRUE)
    ELSE IF llm.kind = "invoke_error"
    THEN Failed("Synthesis failed", ExceptionReport("Synthesis failed"), TRUE)
    ELSE LET parsed == json_loads(CleanContent(llm.content)) IN
         [new_state |->
            IF parsed.ok
            THEN [st EXCEPT !.final_synthesis = Some(ParsedReport(parsed.value))]
            ELSE ParseFailureState(st,
                     fallback_result(Get(st.query, "Unknown query"),
                         search_results, scraped_content, kb_results)),
          called |-> TRUE]

synthesis_node ==
    /\ pc = "synthesis"
    /\ \E llm \in LLMResponses :
        LET r == synthesis_node_result(state, llm) IN
        /\ Step("synthesis", r.new_state)
        /\ llmLog' = IF r.called THEN Append(llmLog, llm) ELSE llmLog
    /\ UNCHANGED <<searchLog, kbLog, fetchLog>>
    /\ UNCHANGED <<splitVars, storeVars, queryVars>>

\* --------------------------------------------------------------- chunker
\* A text is a sequence of characters.  "a" stands for any character that
\* is neither a sentence end nor whitespace.
Chars == {"a", ".", " ", "\n"}
Whitespace == {" ", "\n"}

\* A Python index into a sequence of length n, as slicing reads it.
PyIndex(i, n) ==
    IF i < 0 THEN (IF i + n < 0 THEN 0 ELSE i + n)
    ELSE IF i > n THEN n ELSE i

\* text[s:e]
Slice(text, s, e) ==
    LET a == PyIndex(s, Len(text))
        b == PyIndex(e, Len(text)) IN
    IF a >= b THEN <<>> ELSE SubSeq(text, a + 1, b)

\* text.rfind(ch, s, e): the highest index in text[s:e] holding ch, or -1.
rfind(text, ch, s, e) ==
    LET a == PyIndex(s, Len(text))
        b == PyIndex(e, Len(text))
        hits == {i \in a..(b - 1) : text[i + 1] = ch} IN
    IF hits = {} THEN -1 ELSE CHOOSE i \in hits : \A j \in hits : j <= i

\* text.strip()
RECURSIVE FirstInk(_, _)
FirstInk(text, i) ==
    IF i <= Len(text) /\ text[i] \in Whitespace THEN FirstInk(text, i + 1) ELSE i

RECURSIVE LastInk(_, _)
LastInk(text, i) ==
    IF i >= 1 /\ text[i] \in Whitespace THEN LastInk(text, i - 1) ELSE i

StrStrip(text) ==
    LET a == FirstInk(text, 1)
        b == LastInk(text, Len(text)) IN
    IF a > b THEN <<>> ELSE SubSeq(text, a, b)

\* max(a, b)
Max(a, b) == IF a >= b THEN a ELSE b

\* The distance before the raw cut within which a sentence end is used.
LookBack == 200

\* One turn of the while loop of split_text_into_chunks: the window
\* [start, end) it cuts, the chunks and the start it leaves.
SplitTurn(text, chunk_size, overlap, start, chunks) ==
    LET raw == start + chunk_size
        boundary == Max(rfind(text, ".", start, raw), rfind(text, "\n", start, raw))
        end == IF raw < Len(text) /\ boundary > start + chunk_size - LookBack
               THEN boundary + 1 ELSE raw
        chunk == StrStrip(Slice(text, start, end)) IN
    [end |-> end,
     chunks |-> IF chunk # <<>> THEN Append(chunks, chunk) ELSE chunks,
     start |-> end - overlap]

\* The calls of split_text_into_chunks the model makes: every short text
\* with every small chunk_size and overlap, and texts around chunk sizes
\* above LookBack, built of "a" with a few marked positions.
MaxTextLen == 3
MaxSize == 2
\* Turns of the loop the model follows in one call.
MaxTurns == 4

Fill(n, marks) == [i \in 1..n |-> IF i \in DOMAIN marks THEN marks[i] ELSE "a"]

LongSizes == {203}
LongTexts ==
    {Fill(n, marks) : n \in {204, 209},
                      marks \in UNION {[P -> {".", " "}] : P \in SUBSET {2, 5, 203, 204}}}

SplitCalls ==
    {[text |-> t, chunk_size |-> c, overlap |-> o] :
        t \in SeqsUpTo(Chars, MaxTextLen), c \in 1..MaxSize, o \in 0..MaxSize}
    \cup {[text |-> t, chunk_size |-> c, overlap |-> o] :
        t \in LongTexts, c \in LongSizes, o \in {0, 3, 203}}

\* The call: a text no longer than chunk_size is returned as it is.
split_call ==
    /\ sp_pc = "call"
    /\ IF Len(sp_text) <= sp_size
       THEN sp_chunks' = <<sp_text>> /\ sp_pc' = "done"
       ELSE sp_chunks' = <<>> /\ sp_pc' = "loop"
    /\ sp_start' = 0
    /\ UNCHANGED <<sp_text, sp_size, sp_overlap, sp_iter, sp_windows>>
    /\ UNCHANGED <<runVars, storeVars, queryVars>>

\* One turn of the loop, while start < len(text).
split_turn ==
    /\ sp_pc = "loop"
    /\ sp_start < Len(sp_text)
    /\ sp_iter < MaxTurns
    /\ LET r == SplitTurn(sp_text, sp_size, sp_overlap, sp_start, sp_chunks) IN
        /\ sp_chunks' = r.chunks
        /\ sp_start' = r.start
        /\ sp_windows' = Append(sp_windows, [start |-> sp_start, end |-> r.end])
    /\ sp_iter' = sp_iter + 1
    /\ UNCHANGED <<sp_pc, sp_text, sp_size, sp_overlap>>
    /\ UNCHANGED <<runVars, storeVars, queryVars>>

\* The loop is left and the chunks are returned.
split_return ==
    /\ sp_pc = "loop"
    /\ ~(sp_start < Len(sp_text))
    /\ sp_pc' = "done"
    /\ UNCHANGED <<sp_text, sp_size, sp_overlap, sp_start, sp_chunks, sp_iter,
                   sp_windows>>
    /\ UNCHANGED <<runVars, storeVars, queryVars>>

\* Every turn of the loop, to its end.
RECURSIVE SplitLoop(_, _, _, _, _)
SplitLoop(text, chunk_size, overlap, start, chunks) ==
    IF start < Len(text)
    THEN LET r == SplitTurn(text, chunk_size, overlap, start, chunks) IN
         SplitLoop(text, chunk_size, overlap, r.start, r.chunks)
    ELSE chunks

split_text_into_chunks(text, chunk_size, overlap) ==
    IF Len(text) <= chunk_size THEN <<text>>
    ELSE SplitLoop(text, chunk_size, overlap, 0, <<>>)

\* ------------------------------------------------------- knowledge store
\* "#" stands for any character outside the allow-list of preprocess_text.
Special == "#"

\* re.sub of \s+ by one space: of a run of whitespace the first is kept, as
\* a space.
CollapseWhitespace(text) ==
    LET marked == [i \in 1..Len(text) |->
                      [c |-> text[i],
                       in_run |-> i > 1 /\ text[i - 1] \in Whitespace]]
        kept == SelectSeq(marked, LAMBDA m : ~(m.c \in Whitespace /\ m.in_run)) IN
    [i \in 1..Len(kept) |-> IF kept[i].c \in Whitespace THEN " " ELSE kept[i].c]

\* re.sub of every character outside the allow-list by a space.
DropSpecial(text) ==
    [i \in 1..Len(text) |-> IF text[i] = Special THEN " " ELSE text[i]]

\* A line is kept when it has more than this many characters, stripped.
MinLineLen == 10

\* preprocess_text.  After the first substitution the text holds no
\* newline, so text.split('\n') is the one line.
preprocess_text(text) ==
    LET line == StrStrip(DropSpecial(CollapseWhitespace(text))) IN
    IF Len(line) > MinLineLen THEN StrStrip(line) ELSE <<>>

\* The least length of processed text that is ingested.
MinDocLen == 50
\* The parameters add_document_to_collection chunks with.
IngestChunkSize == 1000
IngestOverlap == 100

TooShort_never(processed_text) == FALSE

\* len(processed_text.strip()) < 50
TooShort(processed_text) == Len(StrStrip(processed_text)) < MinDocLen

uuid4_repeats(n) == 1

\* uuid.uuid4(): the n-th identifier drawn is one never drawn before.
uuid4(n) == n + 1

\* The documents the sessions upload, by file name.
Sources == {"padded.txt", "min.txt", "long.txt"}

Document(source) ==
    CASE source = "padded.txt" ->
            <<"\n", " ">> \o Fill(49, <<>>) \o <<Special, " ", Special>>
      [] source = "min.txt" -> Fill(50, <<>>)
      [] source = "long.txt" -> Fill(1100, [i \in {950, 951} |-> IF i = 950 THEN "." ELSE " "])

\* No more than this many runs of the app's script are followed.
MaxRuns == 2

Sessions == {"s1", "s2"}
Kinds(s) == IF s = "s1" THEN {"ingest", "query", "clear", "reset"}
            ELSE {"ingest", "query"}

NoResult == [kind |-> "none", ids |-> <<>>]
IdleSession ==
    [pc |-> "idle", kind |-> "none", handle |-> 0, source |-> "",
     chunks |-> <<>>, added |-> <<>>, ids_before |-> {}, got |-> {},
     result |-> NoResult]

Ids(chunks) == {chunks[i].id : i \in 1..Len(chunks)}

\* The collection handle is of the database that is there now.
Live(handle) == dir_exists /\ handle = gen

\* What a step of an ingest or a query that uses the store finds wrong.
Torn(handle) ==
    (IF ~dir_exists THEN {"removed, not recreated"} ELSE {})
    \cup (IF handle # gen THEN {"handle from before the reset"} ELSE {})

Finish(s, kind, ids) ==
    [sess EXCEPT ![s].pc = "done", ![s].result = [kind |-> kind, ids |-> ids]]

\* A run of the app's script begins with collection = get_collection(): the
\* cached handle, or get_or_create_collection(), which raises when the
\* module has no client.
run_start(s) ==
    /\ sess[s].pc = "idle"
    /\ runs < MaxRuns
    /\ runs' = runs + 1
    /\ overlapped' = (overlapped \/ \E o \in Sessions \ {s} : sess[o].pc # "idle")
    /\ \E kind \in Kinds(s) :
        IF cache # 0
        THEN /\ sess' = [sess EXCEPT ![s].pc = "ready", ![s].kind = kind,
                                     ![s].handle = cache]
             /\ UNCHANGED <<cache, torn>>
        ELSE IF client = "unbound"
        THEN /\ sess' = [Finish(s, "raised", <<>>) EXCEPT ![s].kind = kind]
             /\ torn' = IF kind \in {"ingest", "query"}
                        THEN torn \cup {"no client"} ELSE torn
             /\ UNCHANGED cache
        ELSE /\ sess' = [sess EXCEPT ![s].pc = "ready", ![s].kind = kind,
                                     ![s].handle = gen]
             /\ cache' = gen
             /\ UNCHANGED torn
    /\ UNCHANGED <<client, dir_exists, gen, db, issued, hist>>
    /\ UNCHANGED <<runVars, splitVars, queryVars>>

\* add_document_to_collection, up to the loop: the text is processed, and
\* None is returned when too little is left of it.
ingest_begin(s) ==
    /\ sess[s].pc = "ready"
    /\ sess[s].kind = "ingest"
    /\ \E source \in Sources :
        LET processed_text == preprocess_text(Document(source)) IN
        IF TooShort(processed_text)
        THEN sess' = [Finish(s, "None", <<>>) EXCEPT ![s].source = source,
                                                     ![s].ids_before = Ids(db)]
        ELSE sess' = [sess EXCEPT
                ![s].pc = "adding",
                ![s].source = source,
                ![s].ids_before = Ids(db),
                ![s].chunks = split_text_into_chunks(processed_text,
                                  IngestChunkSize, IngestOverlap)]
    /\ UNCHANGED <<client, dir_exists, gen, db, cache, issued, runs, hist, overlapped, torn>>
    /\ UNCHANGED <<runVars, splitVars, queryVars>>

\* One turn of the loop of add_document_to_collection: collection.add of the
\* next chunk, which can raise; after the last chunk doc_ids is returned.
\* With a handle of a database that is gone the add raises or is lost.
ingest_add(s) ==
    /\ sess[s].pc = "adding"
    /\ LET i == Len(sess[s].added)
           chunk == [id |-> uuid4(issued),
                     text |-> sess[s].chunks[i + 1],
                     source |-> sess[s].source,
                     chunk_index |-> i,
                     total_chunks |-> Len(sess[s].chunks)]
           added == Append(sess[s].added, chunk)
           after == IF Len(added) = Len(sess[s].chunks)
                    THEN [Finish(s, "ids", [j \in 1..Len(added) |-> added[j].id])
                             EXCEPT ![s].added = added]
                    ELSE [sess EXCEPT ![s].added = added]
       IN
       /\ issued' = issued + 2
       /\ torn' = torn \cup Torn(sess[s].handle)
       /\ \E raises \in BOOLEAN :
            IF raises
            THEN /\ sess' = Finish(s, "raised", <<>>)
                 /\ UNCHANGED db
            ELSE /\ sess' = after
                 /\ db' = IF Live(sess[s].handle) THEN Append(db, chunk) ELSE db
    /\ UNCHANGED <<client, dir_exists, gen, cache, runs, hist, overlapped>>
    /\ UNCHANGED <<runVars, splitVars, queryVars>>

\* The n_results of the app's search box.
search_n_results == 1

\* search_similar_documents as the session sees it: the chunks found, no
\* more than n_results; [] for an empty collection, and [] when the store
\* raises.
query(s) ==
    /\ sess[s].pc = "ready"
    /\ sess[s].kind = "query"
    /\ torn' = torn \cup Torn(sess[s].handle)
    /\ IF Live(sess[s].handle)
       THEN sess' = Finish(s, "hits",
                        [i \in 1..Min(search_n_results, Len(db)) |-> 0])
       ELSE sess' = Finish(s, "hits", <<>>)
    /\ UNCHANGED <<client, dir_exists, gen, db, cache, issued, runs, hist, overlapped>>
    /\ UNCHANGED <<runVars, splitVars, queryVars>>

Remaining_all(chunks, ids) == chunks

\* collection.delete(ids=...): the chunks left.
Remaining(chunks, ids) == SelectSeq(chunks, LAMBDA c : c.id \notin ids)

\* clear_collection: all_data = collection.get()
clear_get(s) ==
    /\ sess[s].pc = "ready"
    /\ sess[s].kind = "clear"
    /\ IF Live(sess[s].handle)
       THEN sess' = [sess EXCEPT ![s].pc = "got", ![s].got = Ids(db)]
       ELSE sess' = Finish(s, "False", <<>>)
    /\ UNCHANGED <<client, dir_exists, gen, db, cache, issued, runs, hist, overlapped, torn>>
    /\ UNCHANGED <<runVars, splitVars, queryVars>>

\* clear_collection: collection.delete(ids=all_data["ids"]), when there are
\* any, and True is returned.
clear_delete(s) ==
    /\ sess[s].pc = "got"
    /\ IF Live(sess[s].handle) \/ sess[s].got = {}
       THEN /\ sess' = Finish(s, "True", <<>>)
            /\ db' = Remaining(db, sess[s].got)
       ELSE /\ sess' = Finish(s, "False", <<>>)
            /\ UNCHANGED db
    /\ UNCHANGED <<client, dir_exists, gen, cache, issued, runs, hist, overlapped, torn>>
    /\ UNCHANGED <<runVars, splitVars, queryVars>>

\* completely_reset_database: del client
reset_del_client(s) ==
    /\ sess[s].pc = "ready"
    /\ sess[s].kind = "reset"
    /\ client' = "unbound"
    /\ sess' = [sess EXCEPT ![s].pc = "rmtree"]
    /\ UNCHANGED <<dir_exists, gen, db, cache, issued, runs, hist, overlapped, torn>>
    /\ UNCHANGED <<runVars, splitVars, queryVars>>

\* completely_reset_database: shutil.rmtree(DB_PATH), which can raise, and
\* then False is returned.
reset_rmtree(s) ==
    /\ sess[s].pc = "rmtree"
    /\ \E raises \in BOOLEAN :
        IF raises
        THEN /\ sess' = Finish(s, "False", <<>>)
             /\ UNCHANGED <<dir_exists, gen, db>>
        ELSE /\ sess' = [sess EXCEPT ![s].pc = "makedirs"]
             /\ dir_exists' = FALSE
             /\ gen' = gen + 1
             /\ db' = <<>>
    /\ UNCHANGED <<client, cache, issued, runs, hist, overlapped, torn>>
    /\ UNCHANGED <<runVars, splitVars, queryVars>>

\* completely_reset_database: os.makedirs(DB_PATH, exist_ok=True)
reset_makedirs(s) ==
    /\ sess[s].pc = "makedirs"
    /\ dir_exists' = TRUE
    /\ sess' = [sess EXCEPT ![s].pc = "new_client"]
    /\ UNCHANGED <<client, gen, db, cache, issued, runs, hist, overlapped, torn>>
    /\ UNCHANGED <<runVars, splitVars, queryVars>>

\* completely_reset_database: client = chromadb.PersistentClient(...), and
\* True is returned.
reset_new_client(s) ==
    /\ sess[s].pc = "new_client"
    /\ client' = "open"
    /\ sess' = [sess EXCEPT ![s].pc = "reset_done"]
    /\ UNCHANGED <<dir_exists, gen, db, cache, issued, runs, hist, overlapped, torn>>
    /\ UNCHANGED <<runVars, splitVars, queryVars>>

\* The Complete Reset button after a reset that returned True:
\* st.cache_resource.clear()
reset_clear_cache(s) ==
    /\ sess[s].pc = "reset_done"
    /\ cache' = 0
    /\ sess' = Finish(s, "True", <<>>)
    /\ UNCHANGED <<client, dir_exists, gen, db, issued, runs, hist, overlapped, torn>>
    /\ UNCHANGED <<runVars, splitVars, queryVars>>

\* The run of the script is over.
run_end(s) ==
    /\ sess[s].pc = "done"
    /\ hist' = Append(hist, [kind |-> sess[s].kind, result |-> sess[s].result.kind])
    /\ sess' = [sess EXCEPT ![s] = IdleSession]
    /\ UNCHANGED <<client, dir_exists, gen, db, cache, issued, runs, overlapped, torn>>
    /\ UNCHANGED <<runVars, splitVars, queryVars>>

\* ---------------------------------------------------------------- search
\* A collection as a search sees it: the cosine distance of every chunk to
\* the query, in tenths, the chunks in the order they were added.
MaxChunks == 3
Distances == {1, 5, 9}
SearchCalls ==
    {[dists |-> d, n_results |-> k] :
        d \in SeqsUpTo(Distances, MaxChunks), k \in {1, 3}}

\* collection.query: the n_results nearest chunks, nearest first.  The store
\* says nothing of the order of chunks at the same distance.
QueryAnswers(dists, k) ==
    LET n == Min(k, Len(dists)) IN
    {order \in [1..n -> 1..Len(dists)] :
        /\ \A i, j \in 1..n : i # j => order[i] # order[j]
        /\ \A i, j \in 1..n : i < j => dists[order[i]] <= dists[order[j]]
        /\ \A i \in 1..n : \A c \in 1..Len(dists) :
              (\A j \in 1..n : order[j] # c) => dists[order[i]] <= dists[c]}

\* 1, in tenths.
One == 10

\* search_similar_documents: [] for an empty collection, and otherwise the
\* chunks in the order the store answers them, each with 1 - dist.
search_similar_documents(dists, order) ==
    IF Len(dists) = 0 THEN <<>>
    ELSE [i \in 1..Len(order) |->
            [chunk |-> order[i], similarity_score |-> One - dists[order[i]]]]

\* A call: the store answers or raises, and on a raise [] is returned.
search ==
    /\ q_pc = "call"
    /\ q_pc' = "done"
    /\ \/ \E order \in QueryAnswers(q_dists, q_k) :
            q_result' = search_similar_documents(q_dists, order)
       \/ q_dists # <<>> /\ q_result' = <<>>
    /\ UNCHANGED <<q_dists, q_k>>
    /\ UNCHANGED <<runVars, splitVars, storeVars>>

\* ---------------------------------------------------------- specifications
RunInit ==
    /\ pc = Edge("START")
    /\ state \in {InputState(q) : q \in {Absent} \cup {Some(s) : s \in Queries}}
    /\ ran = <<>>
    /\ trace = <<state>>
    /\ searchLog = <<>>
    /\ kbLog = <<>>
    /\ fetchLog = <<>>
    /\ llmLog = <<>>

\* No research run is made.
RunIdle ==
    /\ pc = "END"
    /\ state = InputState(Absent)
    /\ ran = <<>>
    /\ trace = <<>>
    /\ searchLog = <<>>
    /\ kbLog = <<>>
    /\ fetchLog = <<>>
    /\ llmLog = <<>>

SplitInit ==
    /\ sp_pc = "call"
    /\ \E c \in SplitCalls :
        /\ sp_text = c.text
        /\ sp_size = c.chunk_size
        /\ sp_overlap = c.overlap
    /\ sp_start = 0
    /\ sp_chunks = <<>>
    /\ sp_iter = 0
    /\ sp_windows = <<>>

\* No call of split_text_into_chunks is made.
SplitIdle ==
    /\ sp_pc = "idle"
    /\ sp_text = <<>>
    /\ sp_size = 0
    /\ sp_overlap = 0
    /\ sp_start = 0
    /\ sp_chunks = <<>>
    /\ sp_iter = 0
    /\ sp_windows = <<>>

\* What an earlier process left in the database directory: nothing, or the
\* chunk of one ingest of min.txt.
StoredBefore ==
    {<<>>,
     <<[id |-> uuid4(0), text |-> Document("min.txt"), source |-> "min.txt",
        chunk_index |-> 0, total_chunks |-> 1]>>}

\* The module as it is after import: the client is open on the database
\* of the directory, nothing is cached, no session is running the script.
StoreInit ==
    /\ client = "open"
    /\ dir_exists = TRUE
    /\ gen = 1
    /\ db \in StoredBefore
    /\ cache = 0
    /\ issued = 2 * Len(db)
    /\ sess = [s \in Sessions |-> IdleSession]
    /\ runs = 0
    /\ hist = <<>>
    /\ overlapped = FALSE
    /\ torn = {}

\* No session uses the store.
StoreIdle == StoreInit /\ db = <<>>

SearchInit ==
    /\ q_pc = "call"
    /\ \E c \in SearchCalls : q_dists = c.dists /\ q_k = c.n_results
    /\ q_result = <<>>

\* No call of search_similar_documents is made.
SearchIdle ==
    /\ q_pc = "idle"
    /\ q_dists = <<>>
    /\ q_k = 0
    /\ q_result = <<>>

\* A research run.
Init == RunInit /\ SplitIdle /\ StoreIdle /\ SearchIdle

Next ==
    \/ search_node
    \/ knowledge_base_node
    \/ scrape_node
    \/ synthesis_node

Spec == Init /\ [][Next]_vars

\* A call of split_text_into_chunks.
InitSplit == RunIdle /\ SplitInit /\ StoreIdle /\ SearchIdle

NextSplit ==
    \/ split_call
    \/ split_turn
    \/ split_return

SpecSplit == InitSplit /\ [][NextSplit]_vars

\* The scrape stage of a run whose search gave up to MaxLinks results and
\* whose knowledge base is empty.
MaxLinks == 4
ScrapeLinks == MoreHttpUrls \cup {"ftp://d.org"}

InitScrape ==
    /\ \E organic \in SeqsUpTo(ScrapeLinks, MaxLinks) :
        LET input == InputState(Some("ai news"))
            resp == [kind |-> "ok", organic |-> organic]
            store == [kind |-> "ok", count |-> 0]
            searched == search_node_result(input, resp).new_state
            queried == knowledge_base_node_result(searched, store).new_state IN
        /\ state = queried
        /\ trace = <<input, searched, queried>>
        /\ searchLog = <<resp>>
        /\ kbLog = <<store>>
    /\ pc = "scrape"
    /\ ran = <<"search", "query_kb">>
    /\ fetchLog = <<>>
    /\ llmLog = <<>>
    /\ SplitIdle /\ StoreIdle /\ SearchIdle

NextScrape == scrape_node

SpecScrape == InitScrape /\ [][NextScrape]_vars

\* Sessions of the app using the knowledge store.
InitStore == RunIdle /\ SplitIdle /\ StoreInit /\ SearchIdle

NextStore ==
    \E s \in Sessions :
        \/ run_start(s)
        \/ ingest_begin(s)
        \/ ingest_add(s)
        \/ query(s)
        \/ clear_get(s)
        \/ clear_delete(s)
        \/ reset_del_client(s)
        \/ reset_rmtree(s)
        \/ reset_makedirs(s)
        \/ reset_new_client(s)
        \/ reset_clear_cache(s)
        \/ run_end(s)

SpecStore == InitStore /\ [][NextStore]_vars

\* A call of search_similar_documents.
InitSearch == RunIdle /\ SplitIdle /\ StoreIdle /\ SearchInit

NextSearch == search

SpecSearch == InitSearch /\ [][NextSearch]_vars

\* ================================================================ claims
Stages == <<"search", "query_kb", "scrape", "synthesis">>

\* The state a node received and the state it returned, for the i-th node run.
Before(i) == trace[i]
After(i) == trace[i + 1]

\* The search stage has run and has set the error.
SearchSetFailure == Len(ran) >= 1 /\ ~HasError(Before(1)) /\ HasError(After(1))

\* final_synthesis holds a report: an object with a summary and findings.
IsReport(f) ==
    /\ f # Absent
    /\ f[1].shape = "object"
    /\ f[1].summary # Absent
    /\ f[1].findings # Absent

\* final_synthesis holds an object with at least one key.
IsNonEmptyObject(f) ==
    /\ f # Absent
    /\ f[1].shape = "object"
    /\ (f[1].summary # Absent \/ f[1].findings # Absent \/ f[1].error # Absent)

\* C1: every run executes search, query_kb, scrape, synthesis once each in
\* this order and then is at END, whatever the nodes return: the nodes run
\* so far are a prefix of the four stages, the next node is the stage after
\* that prefix, a run that is not at END can take its next node, and a run
\* is at END exactly when the four nodes have run.
C1_FixedStageOrder ==
    /\ Len(ran) <= Len(Stages)
    /\ ran = SubSeq(Stages, 1, Len(ran))
    /\ Len(trace) = Len(ran) + 1
    /\ pc = (IF Len(ran) = Len(Stages) THEN "END" ELSE Stages[Len(ran) + 1])
    /\ (pc # "END" => ENABLED Next)

\* A run at END whose error was set by the search stage.
C1_Witness == pc = "END" /\ ran = Stages /\ SearchSetFailure

\* C2: at END final_synthesis holds a report with a summary and findings,
\* also in the runs that end with the error set.
C2_ReportAtDone == pc = "END" => IsReport(state.final_synthesis)

\* C3: once a node has set the error no later node changes it.
C3_FailureKept ==
    \A i \in 1..Len(trace) : \A j \in i..Len(trace) :
        HasError(trace[i]) => trace[j].error = trace[i].error

\* C4 as claimed: in a run where the search stage has set the error, the
\* knowledge base stage still turns to the store, and at END the report is
\* a non-empty object and the error is set.
C4_KbRunsAfterSearchFailure ==
    (SearchSetFailure /\ pc = "END") =>
        /\ kbLog # <<>>
        /\ IsNonEmptyObject(state.final_synthesis)
        /\ HasError(state)

\* C4 as amended: in a run where the search stage has set the error, the
\* knowledge base and scrape stages do nothing (the store is not turned to,
\* no page is fetched, knowledge_base_results and scraped_content stay as
\* they were), and at END the report is a non-empty object and the error
\* is set.
C4_StagesSkippedAfterSearchFailure ==
    SearchSetFailure =>
        /\ kbLog = <<>>
        /\ fetchLog = <<>>
        /\ \A i \in 2..Len(ran) : i <= 3 => After(i) = After(1)
        /\ pc = "END" => (IsNonEmptyObject(state.final_synthesis) /\ HasError(state))

C4_Witness == SearchSetFailure /\ pc = "END" /\ llmLog = <<>>

\* C5: when the search client fails (no API key, timeout, HTTP error,
\* request error) the search stage sets the error.
C5_SearchFailureSetsError ==
    (Len(ran) >= 1 /\ searchLog # <<>> /\ searchLog[1].kind \in SerperFailures)
        => HasError(After(1))

\* C6: for an empty or missing query the search stage sets the error and
\* search_web is not called, by that stage or later in the run.
C6_EmptyQueryRejected ==
    (Len(ran) >= 1 /\ Get(Before(1).query, "") = "") =>
        /\ After(1).error = Some("No query provided for search")
        /\ searchLog = <<>>

C6_Witness == pc = "query_kb" /\ Before(1).query = Some("") /\ HasError(state)

\* C7: whenever the search stage sets the error, the state it returns holds
\* search_results = [].
C7_SearchFailureEmptiesResults ==
    SearchSetFailure => After(1).search_results = Some(<<>>)

\* C8: the knowledge base stage leaves the error as it was; when the store
\* cannot be opened or its query fails the stage stores
\* knowledge_base_results = [], and the run goes on to scrape.
C8_KbNeverFails ==
    Len(ran) >= 2 =>
        /\ After(2).error = Before(2).error
        /\ (kbLog # <<>> /\ kbLog[1].kind \in {"unavailable", "query_error"})
              => After(2).knowledge_base_results = Some(<<>>)
        /\ (IF Len(ran) = 2 THEN pc = "scrape" ELSE ran[3] = "scrape")

C8_Witness ==
    /\ pc = "scrape"
    /\ kbLog # <<>>
    /\ kbLog[1].kind = "unavailable"
    /\ state.knowledge_base_results = Some(<<>>)

\* The fetch gave content that scrape_node keeps.
Kept(fetch) == scrape_url(fetch.url, fetch.page) > MinContentLen

\* C9: the scrape stage leaves the error as it was, fetches every url within
\* the cap whatever the earlier fetches gave, and stores the page of every
\* fetch that gave enough content.
C9_FailedFetchSkipped ==
    Len(ran) >= 3 =>
        /\ After(3).error = Before(3).error
        /\ [i \in 1..Len(fetchLog) |-> fetchLog[i].url] = ScrapeTargets(Before(3))
        /\ \A i \in 1..Len(fetchLog) :
              Kept(fetchLog[i]) =>
                  \E j \in 1..Len(Get(After(3).scraped_content, <<>>)) :
                      Get(After(3).scraped_content, <<>>)[j].url = fetchLog[i].url

\* A fetch failed and the page of a later url is stored.
C9_Witness ==
    /\ Len(ran) >= 3
    /\ \E i \in 1..Len(fetchLog) : \E j \in (i + 1)..Len(fetchLog) :
          /\ fetchLog[i].page.kind = "http_error"
          /\ Kept(fetchLog[j])
          /\ \E k \in 1..Len(Get(state.scraped_content, <<>>)) :
                Get(state.scraped_content, <<>>)[k].url = fetchLog[j].url

\* C10: when search_results, knowledge_base_results and scraped_content are
\* all empty on entry, the synthesis stage sets the error and stores a
\* report whose findings is the empty sequence.
C10_EmptyDataReport ==
    (Len(ran) = 4
     /\ Get(Before(4).search_results, <<>>) = <<>>
     /\ Get(Before(4).knowledge_base_results, <<>>) = <<>>
     /\ Get(Before(4).scraped_content, <<>>) = <<>>)
        => /\ HasError(After(4))
           /\ After(4).final_synthesis # Absent
           /\ After(4).final_synthesis[1].findings = Some(<<>>)

\* The synthesis stage has run, the model answered, and its answer did not
\* parse.
ParseFailed ==
    /\ Len(ran) = 4
    /\ llmLog # <<>>
    /\ llmLog[1].kind = "ok"
    /\ ~json_loads(CleanContent(llmLog[1].content)).ok

\* The synthesis stage has run, with at least one source category non-empty
\* on entry, and the model client was unavailable or its call failed.
ModelFailed ==
    /\ Len(ran) = 4
    /\ llmLog # <<>>
    /\ llmLog[1].kind \in {"unavailable", "invoke_error"}
    /\ \/ Get(Before(4).search_results, <<>>) # <<>>
       \/ Get(Before(4).knowledge_base_results, <<>>) # <<>>
       \/ Get(Before(4).scraped_content, <<>>) # <<>>

\* An evidence entry that is a URL.
IsActualUrl(e) == e \in Urls \ {""}

\* The titles of the fallback findings for the categories that are not empty,
\* in the order knowledge base, web search, scraped pages.
FallbackTitles(st) ==
    (IF Get(st.knowledge_base_results, <<>>) # <<>>
     THEN <<"Knowledge Base Analysis">> ELSE <<>>)
    \o (IF Get(st.search_results, <<>>) # <<>>
        THEN <<"Web Research Results">> ELSE <<>>)
    \o (IF Get(st.scraped_content, <<>>) # <<>>
        THEN <<"Detailed Content Analysis">> ELSE <<>>)

\* C11: when the model's answer does not parse, the report stored has one
\* finding for each non-empty category and none for an empty one, in the
\* order knowledge base, web search, scraped pages; the evidence of the
\* knowledge base finding is ["Knowledge Base"], and every other evidence
\* entry is a URL that is the link of a search result or the url of a
\* scraped page.
C11_FallbackFindings ==
    ParseFailed =>
        LET st == Before(4)
            findings == After(4).final_synthesis[1].findings[1]
            sources ==
                {Get(st.search_results, <<>>)[i].link :
                    i \in 1..Len(Get(st.search_results, <<>>))}
                \cup {Get(st.scraped_content, <<>>)[i].url :
                    i \in 1..Len(Get(st.scraped_content, <<>>))} IN
        /\ [i \in 1..Len(findings) |-> findings[i].title] = FallbackTitles(st)
        /\ \A i \in 1..Len(findings) :
              IF findings[i].title = "Knowledge Base Analysis"
              THEN findings[i].evidence = <<"Knowledge Base">>
              ELSE \A j \in 1..Len(findings[i].evidence) :
                      /\ IsActualUrl(findings[i].evidence[j])
                      /\ findings[i].evidence[j] \in sources

\* C12: when the model's answer does not parse, the error after the
\* synthesis stage is the error before it.
C12_ParseFailureNotSurfaced ==
    ParseFailed => After(4).error = Before(4).error

\* The answer did not parse and the fallback report is stored.
C12_Witness ==
    /\ ParseFailed
    /\ ~HasError(state)
    /\ IsReport(state.final_synthesis)
    /\ state.final_synthesis[1].summary[1].text = "Research analysis completed"

\* C13: when at least one source category is non-empty on entry and the
\* model client is unavailable or its call fails, the synthesis stage sets
\* the error and stores a non-empty object as the report.
C13_ModelFailureSetsError ==
    ModelFailed =>
        /\ ~HasError(Before(4))
        /\ HasError(After(4))
        /\ IsNonEmptyObject(After(4).final_synthesis)

\* The model client is unavailable in a run that has data.
C13_Witness ==
    /\ ModelFailed
    /\ llmLog[1].kind = "unavailable"
    /\ state.error = Some("LLM not available for synthesis")

\* C14: a call of split_text_into_chunks with overlap >= chunk_size is
\* rejected: it neither enters the loop nor returns chunks.
C14_OverlapRejected ==
    (sp_pc # "idle" /\ sp_overlap >= sp_size) => sp_pc \notin {"loop", "done"}

\* The chunks put together again: the first chunk, then every later chunk
\* without its first overlap characters.
RECURSIVE Reassemble(_, _)
Reassemble(chunks, overlap) ==
    IF Len(chunks) <= 1 THEN (IF chunks = <<>> THEN <<>> ELSE chunks[1])
    ELSE Reassemble(SubSeq(chunks, 1, Len(chunks) - 1), overlap)
         \o Slice(chunks[Len(chunks)], overlap, Len(chunks[Len(chunks)]))

\* C15: for a text longer than chunk_size (and overlap < chunk_size), the
\* chunks returned, each after the first without its first overlap
\* characters, concatenated in order, are the stripped text.
C15_ChunksReconstructText ==
    (sp_pc = "done" /\ Len(sp_text) > sp_size /\ sp_overlap < sp_size)
        => Reassemble(sp_chunks, sp_overlap) = StrStrip(sp_text)

\* The documents of which too little is left after preprocess_text.
ShortSources ==
    {source \in Sources :
        Len(StrStrip(preprocess_text(Document(source)))) < MinDocLen}

\* The chunks of every document that is ingested.
ChunksOf ==
    [source \in Sources |->
        split_text_into_chunks(preprocess_text(Document(source)),
                               IngestChunkSize, IngestOverlap)]

\* C16: an ingest of a document whose processed text has fewer than 50
\* characters ends at once with the failure value None in place of the
\* ids, and makes no collection.add: it persists no chunk, and when no
\* other run overlapped the call the store holds the chunks it held when
\* the call began.
C16_ShortDocumentRejected ==
    \A s \in Sessions :
        (sess[s].kind = "ingest" /\ sess[s].source \in ShortSources) =>
            /\ sess[s].pc = "done"
            /\ sess[s].result.kind = "None"
            /\ sess[s].added = <<>>
            /\ ~overlapped => Ids(db) = sess[s].ids_before

\* A document longer than 50 characters is rejected for what is left of it,
\* with a chunk in the store.
C16_Witness ==
    \E s \in Sessions :
        /\ sess[s].pc = "done"
        /\ sess[s].source = "padded.txt"
        /\ Len(Document(sess[s].source)) > MinDocLen
        /\ sess[s].result.kind = "None"
        /\ db # <<>>

\* C17: an ingest call that returns ids has made one collection.add per
\* chunk of the chunker, in chunk order, and returns their ids in that
\* order; the ids differ from one another and from every id in the store
\* when the call began; chunk_index runs over 0..total_chunks-1 and
\* total_chunks is the number of chunks of the call.  No two chunks of the
\* store share an id, and when no other run overlapped the call the chunks
\* are the last of the store.
C17_IngestPersistsChunks ==
    /\ \A i, j \in 1..Len(db) : i # j => db[i].id # db[j].id
    /\ \A s \in Sessions :
        (sess[s].kind = "ingest" /\ sess[s].result.kind = "ids") =>
            LET ids == sess[s].result.ids
                added == sess[s].added
                chunks == ChunksOf[sess[s].source] IN
            /\ Len(ids) = Len(chunks)
            /\ Len(added) = Len(chunks)
            /\ \A i \in 1..Len(chunks) :
                  /\ added[i].id = ids[i]
                  /\ added[i].text = chunks[i]
                  /\ added[i].source = sess[s].source
                  /\ added[i].chunk_index = i - 1
                  /\ added[i].total_chunks = Len(chunks)
                  /\ ids[i] \notin sess[s].ids_before
            /\ \A i, j \in 1..Len(ids) : i # j => ids[i] # ids[j]
            /\ ~overlapped =>
                  /\ Len(db) >= Len(added)
                  /\ SubSeq(db, Len(db) - Len(added) + 1, Len(db)) = added
                  /\ Ids(SubSeq(db, 1, Len(db) - Len(added))) = sess[s].ids_before

\* An ingest of two chunks into a store that held a chunk.
C17_Witness ==
    \E s \in Sessions :
        /\ sess[s].result.kind = "ids"
        /\ Len(sess[s].result.ids) = 2
        /\ sess[s].ids_before # {}
        /\ Len(db) = 3

\* C18: a search returns at most n_results chunks, each with the score
\* 1 - distance, in descending score, chunks of the same score in the order
\* they were added; for an empty collection it returns [].
C18_SearchOrder ==
    q_pc = "done" =>
        /\ Len(q_result) <= q_k
        /\ Len(q_dists) = 0 => q_result = <<>>
        /\ \A i \in 1..Len(q_result) :
              q_result[i].similarity_score = One - q_dists[q_result[i].chunk]
        /\ \A i, j \in 1..Len(q_result) :
              i < j =>
                \/ q_result[i].similarity_score > q_result[j].similarity_score
                \/ /\ q_result[i].similarity_score = q_result[j].similarity_score
                   /\ q_result[i].chunk < q_result[j].chunk

\* The run of the script that ended last.
LastRun == hist[Len(hist)]

\* The next run of the script gets a collection of the database that is
\* there: the store can be searched and added to.
Usable ==
    /\ cache # 0 \/ client = "open"
    /\ Live(IF cache # 0 THEN cache ELSE gen)

\* C19: when a clear or a reset has returned True, no run overlapping
\* another, the store holds no chunk and can be searched and added to; so
\* it is too after the same operation run a second time.
C19_ClearAndResetIdempotent ==
    (/\ ~overlapped
     /\ hist # <<>>
     /\ \A s \in Sessions : sess[s].pc = "idle"
     /\ LastRun.kind \in {"clear", "reset"}
     /\ LastRun.result = "True")
        => db = <<>> /\ Usable

\* Two clears in a row of a store that held a chunk, or two resets.
C19_Witness ==
    /\ ~overlapped
    /\ Len(hist) = 2
    /\ \A s \in Sessions : sess[s].pc = "idle"
    /\ hist[1].kind = hist[2].kind
    /\ hist[1].kind = "clear"
    /\ hist[1].result = "True" /\ hist[2].result = "True"
    /\ issued > 0
    /\ db = <<>> /\ Usable

\* C20: no step of an ingest or of a query meets a store with no client, a
\* database directory removed and not yet recreated, or uses a collection
\* handle obtained before a reset.
C20_ResetExclusive == torn = {}

\* C21: ingesting a document that was ingested before leaves the store with
\* the chunks, and the number of chunks, it had: no two chunks of the store
\* are the same chunk (same source, same index, same text) of a document.
C21_IngestIdempotent ==
    \A i, j \in 1..Len(db) :
        (/\ db[i].source = db[j].source
         /\ db[i].chunk_index = db[j].chunk_index
         /\ db[i].text = db[j].text) => i = j

\* C22: when the model answered, the report the synthesis stage stores is the
\* answer parsed, when that is an object with summary and findings, and the
\* fallback report for every other answer, JSON of another shape too.
C22_ReportOrFallback ==
    (Len(ran) = 4 /\ llmLog # <<>> /\ llmLog[1].kind = "ok") =>
        LET parsed == json_loads(CleanContent(llmLog[1].content))
            st == Before(4) IN
        After(4).final_synthesis =
            IF parsed.ok /\ IsReport(Some(ParsedReport(parsed.value)))
            THEN Some(ParsedReport(parsed.value))
            ELSE Some(fallback_result(Get(st.query, "Unknown query"),
                                      Get(st.search_results, <<>>),
                                      Get(st.scraped_content, <<>>),
                                      Get(st.knowledge_base_results, <<>>)))

\* The places of the search results that hold an http link not seen at an
\* earlier place.
FirstSeen(links) ==
    {i \in 1..Len(links) :
        StartsWithHttp(links[i]) /\ \A j \in 1..(i - 1) : links[j] # links[i]}

\* C23: the urls fetched are the first three (or fewer) of the http and
\* https links of search_results, each taken where it is first seen, in
\* that order; no more than three fetches are made; scraped_content lists
\* the pages kept in the order of their fetches, no url twice.
C23_FetchesFirstThreeUniqueLinks ==
    Len(ran) >= 3 =>
        LET links == Links(Get(Before(3).search_results, <<>>))
            firsts == FirstSeen(links)
            pages == Get(After(3).scraped_content, <<>>)
            kept == SelectSeq(fetchLog, Kept) IN
        /\ Len(fetchLog) <= 3
        /\ Len(fetchLog) = Min(3, Cardinality(firsts))
        /\ \A k \in 1..Len(fetchLog) :
              \E i \in firsts :
                  /\ Cardinality({j \in firsts : j < i}) = k - 1
                  /\ fetchLog[k].url = links[i]
        /\ PageUrls(pages) = [k \in 1..Len(kept) |-> kept[k].url]
        /\ \A a, b \in 1..Len(pages) : a # b => pages[a].url # pages[b].url

\* Four links to fetch, three fetched, the first of them failing.
C23_Witness ==
    /\ Len(ran) >= 3
    /\ Cardinality(FirstSeen(Links(Get(Before(3).search_results, <<>>)))) = 4
    /\ Len(fetchLog) = 3
    /\ fetchLog[1].page.kind = "http_error"
    /\ Len(Get(state.scraped_content, <<>>)) = 2

\* C24: every page of scraped_content has content of at most 2000
\* characters and is the content of a fetch that gave more than 50
\* characters, cut to its first 2000; a fetch that gave more than 2000
\* characters has its page stored.
C24_PagesBounded ==
    Len(ran) >= 3 =>
        LET pages == Get(After(3).scraped_content, <<>>) IN
        /\ \A p \in 1..Len(pages) :
              /\ pages[p].content <= MaxContentLen
              /\ \E f \in 1..Len(fetchLog) :
                    LET content == scrape_url(fetchLog[f].url, fetchLog[f].page) IN
                    /\ fetchLog[f].url = pages[p].url
                    /\ content > MinContentLen
                    /\ pages[p].content = Min(content, MaxContentLen)
        /\ \A f \in 1..Len(fetchLog) :
              scrape_url(fetchLog[f].url, fetchLog[f].page) > MaxContentLen =>
                  \E p \in 1..Len(pages) :
                      /\ pages[p].url = fetchLog[f].url
                      /\ pages[p].content = MaxContentLen

\* A fetch of 2001 characters stored as 2000, and a fetch of 50 characters
\* not stored.
C24_Witness ==
    /\ Len(ran) >= 3
    /\ \E f, g \in 1..Len(fetchLog) :
          /\ fetchLog[f].page = [kind |-> "html", len |-> 2001]
          /\ fetchLog[g].page = [kind |-> "html", len |-> 50]
          /\ \E p \in 1..Len(Get(state.scraped_content, <<>>)) :
                /\ state.scraped_content[1][p].url = fetchLog[f].url
                /\ state.scraped_content[1][p].content = 2000
          /\ \A p \in 1..Len(Get(state.scraped_content, <<>>)) :
                state.scraped_content[1][p].url # fetchLog[g].url

\* The keys of the state.
Fields ==
    {"query", "search_results", "scraped_content", "knowledge_base_results",
     "final_synthesis", "error"}

\* The key a node writes its output to.
OwnField(node) ==
    CASE node = "search" -> "search_results"
      [] node = "query_kb" -> "knowledge_base_results"
      [] node = "scrape" -> "scraped_content"
      [] node = "synthesis" -> "final_synthesis"

\* C25: the state a node returns differs from the state it received in no
\* key but the node's own output key and error, the state it received
\* staying as it was; query has one value in every state of the run.
C25_StagesWriteOwnField ==
    /\ \A i \in 1..Len(ran) :
          \A f \in Fields :
              Before(i)[f] # After(i)[f] => f \in {OwnField(ran[i]), "error"}
    /\ \A i \in 1..Len(trace) : trace[i].query = trace[1].query

\* A run at END in which every node has written its key.
C25_Witness ==
    /\ pc = "END"
    /\ ~HasError(state)
    /\ \A i \in 1..4 : Before(i)[OwnField(ran[i])] # After(i)[OwnField(ran[i])]
    /\ Get(state.search_results, <<>>) # <<>>

\* C26: for a text longer than chunk_size, every window after the first
\* starts chunk_size - overlap characters after the start of the window
\* before it, also when the cut of that window was moved to a sentence end.
C26_WindowsAdvanceByStride ==
    (Len(sp_text) > sp_size /\ sp_overlap < sp_size) =>
        \A i \in 2..Len(sp_windows) :
            sp_windows[i].start = sp_windows[i - 1].start + sp_size - sp_overlap

\* The sentence ends ('.' and newline) of the window from start to its raw
\* boundary, as indices from 0.
SentenceEnds(text, start, raw) ==
    {i \in start..(Min(raw, Len(text)) - 1) : text[i + 1] \in {".", "\n"}}

\* C27: a window that begins in the text and whose raw boundary
\* start + chunk_size is before the end of the text is cut just after its
\* rightmost sentence end when it holds one that lies more than
\* chunk_size - 200 characters past the start, and at the raw boundary
\* otherwise.
C27_CutAtSentenceEnd ==
    \A i \in 1..Len(sp_windows) :
        LET start == sp_windows[i].start
            raw == start + sp_size
            ends == SentenceEnds(sp_text, start, raw) IN
        (start >= 0 /\ raw < Len(sp_text)) =>
            sp_windows[i].end =
                IF \E e \in ends : e > start + sp_size - LookBack
                THEN 1 + CHOOSE e \in ends : \A o \in ends : o <= e
                ELSE raw

\* C28: with 0 <= overlap < chunk_size every turn of the loop leaves a start
\* that is greater than the start it began with, and not negative.
C28_StartIncreases ==
    (sp_size >= 1 /\ sp_overlap < sp_size) =>
        \A i \in 1..Len(sp_windows) :
            /\ sp_windows[i].end - sp_overlap > sp_windows[i].start
            /\ sp_windows[i].end - sp_overlap >= 0

\* C29: when an ingest call has ended and no other ingest is adding, the
\* store holds every chunk the call was to add or none of them, also when a
\* collection.add raised partway or a clear ran between two adds.
C29_IngestAllOrNothing ==
    \A s \in Sessions :
        (/\ sess[s].kind = "ingest"
         /\ sess[s].pc = "done"
         /\ \A o \in Sessions \ {s} : sess[o].pc # "adding") =>
            LET stored == {i \in 1..Len(db) : db[i].id \in Ids(sess[s].added)} IN
            stored = {} \/ Cardinality(stored) = Len(sess[s].chunks)

\* C30: when completely_reset_database has returned, True or False, the
\* module holds a client.
C30_ClientAfterReset ==
    \A s \in Sessions :
        (/\ sess[s].kind = "reset"
         /\ sess[s].pc = "done"
         /\ sess[s].result.kind \in {"True", "False"}) => client = "open"
====
